---- MODULE Spec2Model ----
(***************************************************************************)
(* The PagerDuty MCP chat backend: the process-wide tool registry          *)
(* (lib/mcp: getMCPClient, callMCPTool) and the tool-calling loop of       *)
(* POST /api/chat, run by several concurrent requests of one process.      *)
(* One action is one run-to-completion step of the JavaScript event loop:  *)
(* the code between two awaits.  The chat surface (page.tsx, Home) is a     *)
(* second specification, SpecChat, over the responses of that backend.     *)
(* The incident detail modal (IncidentDetailModal.jsx) and the critical    *)
(* alerts of the dashboard (modifiedjsx.jsx) are SpecModal and SpecDash.   *)
(***************************************************************************)
EXTENDS Integers, Sequences, FiniteSets, TLC

\* ------------------------------------------------------------------ bounds
NReq == 2          \* chat requests the process serves (concurrently or in turn)
MaxToolCalls == 2  \* tool-call requests the model emits, over all requests
MaxSubmits == 2    \* submits the chat surface accepts
MaxCalls == 3      \* loads and handler calls the detail modal makes
MaxMessages == 3   \* WebSocket messages the dashboard receives

Reqs == 1..NReq

\* ------------------------------------------------------------- JS values
JSNull == [type |-> "null"]
JSStr(s) == [type |-> "string", v |-> s]

\* JavaScript truthiness of a string-or-null value.
Truthy(v) == v.type = "string" /\ v.v # ""

\* a ?? b: only null gives way.
JSNullish(a, b) == IF a.type # "null" THEN a ELSE b

\* The right operand, whatever the left one is.
JSRight(a, b) == b

\* a || b
JSOr(a, b) == IF Truthy(a) THEN a ELSE b

\* ---------------------------------------------------------- the environment
\* What listTools answers: the tool descriptors of the provider.
ProviderTools ==
  << [name |-> "list_services", description |-> "List services", inputSchema |-> "{}"],
     [name |-> "acknowledge_incident", description |-> "Acknowledge", inputSchema |-> "{id}"] >>

\* A tool-list array object: 0 is the array literal of line 5, k > 0 is the
\* array of the k-th listTools response.
ToolsOf(obj) == IF obj = 0 THEN << >> ELSE ProviderTools

\* The histories a caller submits.
Histories ==
  { << [role |-> "user", content |-> JSStr("hello")] >>,
    << [role |-> "user", content |-> JSStr("list my services")] >> }

\* The content of a model response without tool calls.
FinalContents == { JSNull, JSStr(""), JSStr("You have 1 service: S1.") }

\* The argument strings a model puts in a tool call.
ArgStrings == { "{}", "{bad" }

\* JSON.parse on the argument strings: the parsed value, or a SyntaxError.
JSONParse(s) ==
  IF s = "{}" THEN [ok |-> TRUE, value |-> << >>] ELSE [ok |-> FALSE]

\* result.content of a tool call that returns: a list of text items.
ToolContents == { << "S1" >> }

RECURSIVE JoinItems(_)
JoinItems(items) ==
  IF items = << >> THEN ""
  ELSE "{\"type\":\"text\",\"text\":\"" \o Head(items) \o "\"}"
       \o (IF Len(items) > 1 THEN "," ELSE "") \o JoinItems(Tail(items))

\* JSON.stringify of a result's content array.
JSONStringify(items) == "[" \o JoinItems(items) \o "]"

\* err.message of a tool call that raises.
ToolErrors == { "boom" }
NotConnected == "Not connected"

\* -------------------------------------------------------------------- state
VARIABLES
  envUrl,      \* process.env.MCP_SERVER_URL is set
  mcpClient,   \* part_000:4; 0 is null, k > 0 the k-th Client object
  tools,       \* part_000:5; the array object the variable holds
  connected,   \* the Client objects whose connect() has resolved
  nClients,    \* Client objects constructed so far
  nConnects,   \* transport connects started so far
  nLists,      \* listTools calls started so far
  req,         \* per request: the locals of POST and of the calls it awaits
  envModel,    \* process.env.OPENAI_MODEL is set
  ui,          \* page.tsx:12-14, the React state of Home
  view,        \* the state the committed render of Home was made from
  sends,       \* the sendMessage calls that went past the guard of page.tsx:18
  modal,       \* IncidentDetailModal.jsx:39-51, the prop and state of the modal
  runs,        \* the loadIncidentData and handler calls of the modal
  dash         \* modifiedjsx.jsx:42 and 60, criticalAlerts and its timers

regVars == <<envUrl, mcpClient, tools, connected, nClients, nConnects, nLists>>
serverVars == <<regVars, req, envModel>>
chatVars == <<ui, view, sends>>
modalVars == <<modal, runs>>
vars == <<regVars, req, envModel, chatVars, modalVars, dash>>

NoMessage == [role |-> "none", content |-> JSNull, tool_calls |-> << >>]
NoRet == [set |-> FALSE, client |-> 0, tools |-> 0, live |-> FALSE, afterInit |-> FALSE]
NoResponse == [status |-> 0, content |-> JSNull]

\* A request that has not arrived yet.
NewRequest ==
  [ pc |-> "idle",               \* idle, getMCP, callMCP, awaitModel, forTool,
                                 \* awaitTool, done, failed
    gpc |-> "none",              \* its getMCPClient call: none, connect, listTools
    gclient |-> 0,               \* the Client that call awaits on
    messages |-> << >>,          \* the caller's array (part_002:11)
    currentMessages |-> << >>,   \* part_002:24
    message |-> NoMessage,       \* part_002:37
    tc |-> 0,                    \* position of the for loop of part_002:46
    toolSchemas |-> << >>,       \* part_002:15
    toolClient |-> 0,            \* client of part_000:34
    toolLive |-> FALSE,          \* that client was connected when callTool ran
    finalResponse |-> JSStr(""), \* part_002:25
    response |-> NoResponse,     \* the HTTP response
    ret |-> NoRet,               \* what its latest getMCPClient call returned
    sent |-> << >>,              \* messages of its latest chat-completion call
    modelCalls |-> 0,            \* chat-completion calls made
    toolInvocations |-> 0,       \* client.callTool calls made
    toolCalls |-> 0,             \* tool-call requests the model has emitted
    rounds |-> 0 ]               \* model responses with tool calls received

\* page.tsx:12-14
NewHome == [messages |-> << >>, input |-> "", isLoading |-> FALSE]

\* IncidentDetailModal.jsx:40-50, before an incident is given
NoIncident == [id |-> "", load |-> 0, status |-> "none"]
NewModal ==
  [ incidentId |-> "",
    incident |-> NoIncident,
    alerts |-> << >>,
    notes |-> << >>,
    logEntries |-> << >>,
    relatedIncidents |-> << >>,
    pastIncidents |-> << >>,
    loading |-> TRUE,
    newNote |-> "",
    addingNote |-> FALSE,
    actionLoading |-> "null" ]

\* modifiedjsx.jsx:52
NoLastMessage == [type |-> "none"]

NewDash ==
  [ criticalAlerts |-> << >>, timers |-> << >>, received |-> 0,
    lastMessage |-> NoLastMessage ]

Init ==
  /\ modal = NewModal
  /\ runs = << >>
  /\ dash = NewDash
  /\ ui = NewHome
  /\ view = NewHome
  /\ sends = << >>
  /\ envModel \in BOOLEAN
  /\ envUrl \in BOOLEAN
  /\ mcpClient = 0
  /\ tools = 0
  /\ connected = {}
  /\ nClients = 0
  /\ nConnects = 0
  /\ nLists = 0
  /\ req = [r \in Reqs |-> NewRequest]

\* Schemas in the reverse order of the descriptors.
ToolSchemasReversed(ts) ==
  [i \in 1..Len(ts) |->
    [type |-> "function",
     function |-> [name |-> ts[Len(ts) + 1 - i].name,
                   description |-> ts[Len(ts) + 1 - i].description,
                   parameters |-> ts[Len(ts) + 1 - i].inputSchema]]]

\* ------------------------------------------------------- POST, the pure steps
\* part_002:15-22
ToolSchemasOf(ts) ==
  [i \in 1..Len(ts) |->
    [type |-> "function",
     function |-> [name |-> ts[i].name,
                   description |-> ts[i].description,
                   parameters |-> ts[i].inputSchema]]]

\* [...messages], part_002:24: a new array with the same elements.
CopyMessages(q) == q.messages

\* A push on an array that is the caller's array itself (no copy was made).
PushAliased(q, m) ==
  [q EXCEPT !.currentMessages = Append(@, m), !.messages = Append(@, m)]

\* A push that puts the message in front of the others.
PushFront(q, m) == [q EXCEPT !.currentMessages = << m >> \o @]

\* currentMessages.push(m)
Push(q, m) == [q EXCEPT !.currentMessages = Append(@, m)]

\* part_002:29-35: the chat-completion request goes out.
CallModel(q) ==
  [q EXCEPT !.pc = "awaitModel",
            !.sent = q.currentMessages,
            !.modelCalls = @ + 1]

\* part_002:15-29: what POST does once getMCPClient has returned val.
AfterRegistry(q, val) ==
  CallModel([q EXCEPT !.toolSchemas = ToolSchemasOf(ToolsOf(val.tools)),
                      !.currentMessages = CopyMessages(q),
                      !.finalResponse = JSStr("")])

\* POST returns or throws: its locals are gone with its frame. What stays is
\* the response and what the run has counted.
Discard(q) ==
  [q EXCEPT !.messages = << >>, !.currentMessages = << >>, !.sent = << >>,
            !.toolSchemas = << >>, !.tc = 0, !.gclient = 0,
            !.toolClient = 0, !.toolLive = FALSE]

\* A failure after which the loop asks the model again.
FailRetry(q) ==
  [q EXCEPT !.pc = "awaitModel",
            !.response = [status |-> 500, content |-> JSNull]]

\* An exception leaves POST: the framework answers 500.
Fail(q) ==
  Discard([q EXCEPT !.pc = "failed",
                    !.response = [status |-> 500, content |-> JSNull]])

ToolMessage(id, content) ==
  [role |-> "tool", tool_call_id |-> id, content |-> content]

\* A for loop that is left after its first iteration.
NextToolCallBreak(q) == CallModel([q EXCEPT !.tc = 0])

\* part_002:46: the for loop moves on; after the last tool call the while
\* loop calls the model again.
NextToolCall(q) ==
  IF q.tc < Len(q.message.tool_calls)
  THEN [q EXCEPT !.tc = @ + 1, !.pc = "forTool"]
  ELSE CallModel([q EXCEPT !.tc = 0])

\* A result that is filed under the first tool call of the batch.
ReturnedAsFirst(q, content) ==
  NextToolCall(Push(q, ToolMessage(q.message.tool_calls[1].id,
                                   JSStr(JSONStringify(content)))))

\* part_002:53-57
Returned(q, content) ==
  NextToolCall(Push(q, ToolMessage(q.message.tool_calls[q.tc].id,
                                   JSStr(JSONStringify(content)))))

\* A catch block that drops the "Error: " prefix.
CaughtBare(q, msg) ==
  NextToolCall(Push(q, ToolMessage(q.message.tool_calls[q.tc].id, JSStr(msg))))

\* A catch block that appends nothing.
CaughtSilent(q, msg) == NextToolCall(q)

\* part_002:58-64
Caught(q, msg) ==
  NextToolCall(Push(q, ToolMessage(q.message.tool_calls[q.tc].id,
                                   JSStr("Error: " \o msg))))

\* getMCPClient returns val to its caller: POST (part_002:13) or callMCPTool
\* (part_000:34), which goes on to client.callTool (part_000:35).
GetReturn(q, val) ==
  LET q1 == [q EXCEPT !.gpc = "none",
                      !.ret = [set |-> TRUE, client |-> val.client,
                               tools |-> val.tools,
                               live |-> val.client \in connected,
                               afterInit |-> val.tools # 0]]
  IN IF q.pc = "getMCP"
     THEN AfterRegistry(q1, val)
     ELSE [q1 EXCEPT !.pc = "awaitTool",
                     !.toolClient = val.client,
                     !.toolLive = val.client \in connected,
                     !.toolInvocations = @ + 1]

\* getMCPClient throws: POST fails, callMCPTool's caller catches (part_002:58).
GetThrow(q, msg) ==
  LET q1 == [q EXCEPT !.gpc = "none"]
  IN IF q.pc = "getMCP" THEN Fail(q1) ELSE Caught(q1, msg)

\* -------------------------------------------------------------- the registry
\* part_000:8, the cache test.
Cached == mcpClient # 0

\* getMCPClient without its cache test: every call connects anew.
GetMCPClientAnew(r, q) ==
  IF ~envUrl
  THEN /\ req' = [req EXCEPT ![r] = GetThrow(q, "Invalid URL")]
       /\ UNCHANGED regVars
  ELSE /\ mcpClient' = nClients + 1
       /\ nClients' = nClients + 1
       /\ nConnects' = nConnects + 1
       /\ req' = [req EXCEPT ![r] = [q EXCEPT !.gpc = "connect",
                                              !.gclient = nClients + 1]]
       /\ UNCHANGED <<envUrl, tools, connected, nLists>>

\* getMCPClient up to its first await (part_000:8-24), called by request r
\* whose locals are q (q.pc names the caller).
GetMCPClient(r, q) ==
  IF Cached
  THEN /\ req' = [req EXCEPT ![r] = GetReturn(q, [client |-> mcpClient, tools |-> tools])]
       /\ UNCHANGED regVars
  ELSE IF ~envUrl
  THEN /\ req' = [req EXCEPT ![r] = GetThrow(q, "Invalid URL")]
       /\ UNCHANGED regVars
  ELSE /\ mcpClient' = nClients + 1
       /\ nClients' = nClients + 1
       /\ nConnects' = nConnects + 1
       /\ req' = [req EXCEPT ![r] = [q EXCEPT !.gpc = "connect",
                                              !.gclient = nClients + 1]]
       /\ UNCHANGED <<envUrl, tools, connected, nLists>>

\* part_000:24-26: connect() settles; on success listTools() is called on
\* the client the module variable holds.
ConnectDone(r) ==
  /\ req[r].gpc = "connect"
  /\ \/ /\ connected' = connected \cup {req[r].gclient}
        /\ nLists' = nLists + 1
        /\ req' = [req EXCEPT ![r] = [@ EXCEPT !.gpc = "listTools",
                                               !.gclient = mcpClient]]
        /\ UNCHANGED <<envUrl, mcpClient, tools, nClients, nConnects>>
     \/ /\ req' = [req EXCEPT ![r] = GetThrow(@, "connect failed")]
        /\ UNCHANGED regVars

\* part_000:26-30: listTools() settles; on success tools is assigned the
\* response's array and the module variables are returned.
ListToolsDone(r) ==
  /\ req[r].gpc = "listTools"
  /\ \/ /\ req[r].gclient \in connected
        /\ tools' = nLists
        /\ req' = [req EXCEPT ![r] = GetReturn(@, [client |-> mcpClient, tools |-> nLists])]
        /\ UNCHANGED <<envUrl, mcpClient, connected, nClients, nConnects, nLists>>
     \/ /\ req' = [req EXCEPT ![r] = GetThrow(@, "listTools failed")]
        /\ UNCHANGED regVars

\* ------------------------------------------------------------------ POST
\* part_002:10-13: a request arrives with its body and calls getMCPClient.
\* Requests are numbered in their order of arrival.
POST(r) ==
  /\ req[r].pc = "idle"
  /\ \A p \in Reqs : p < r => req[p].pc # "idle"
  /\ \E msgs \in Histories :
       GetMCPClient(r, [req[r] EXCEPT !.pc = "getMCP", !.messages = msgs])

\* The batches of at most `most` tool calls a model response may carry after
\* `issued` earlier tool calls of run r: the ids are unique, the arguments are
\* any argument strings.
Batches(r, issued, most) ==
  { [i \in 1..n |-> [id |-> <<r, issued + i>>,
                     type |-> "function",
                     function |-> [name |-> "list_services", arguments |-> args[i]]]] :
      n \in 1..most, args \in [1..most -> ArgStrings] }

\* An answer without tool calls after which the loop asks the model again.
FinalAnswerLoop(q, content) ==
  LET m == [role |-> "assistant", content |-> content, tool_calls |-> << >>]
  IN CallModel(Push([q EXCEPT !.message = m], m))

\* part_002:37-43 on a response without tool calls
FinalAnswer(q, content) ==
  LET m == [role |-> "assistant", content |-> content, tool_calls |-> << >>]
      q1 == Push([q EXCEPT !.message = m], m)
      fr == JSOr(content, JSStr("No response."))
  IN Discard([q1 EXCEPT !.finalResponse = fr,
                        !.pc = "done",
                        !.response = [status |-> 200, content |-> fr]])

\* A tool round whose assistant message is not appended.
ToolRoundNoPush(q, calls) ==
  LET m == [role |-> "assistant", content |-> JSNull, tool_calls |-> calls]
  IN [q EXCEPT !.message = m,
               !.pc = "forTool",
               !.tc = 1,
               !.toolCalls = @ + Len(calls),
               !.rounds = @ + 1]

\* part_002:37-46 on a response with tool calls
ToolRound(q, calls) ==
  LET m == [role |-> "assistant", content |-> JSNull, tool_calls |-> calls]
  IN [Push([q EXCEPT !.message = m], m) EXCEPT !.pc = "forTool",
                                               !.tc = 1,
                                               !.toolCalls = @ + Len(calls),
                                               !.rounds = @ + 1]

RECURSIVE SumToolCalls(_)
SumToolCalls(S) ==
  IF S = {} THEN 0
  ELSE LET r == CHOOSE x \in S : TRUE IN req[r].toolCalls + SumToolCalls(S \ {r})

\* Tool-call requests the model has emitted so far, over all requests.
TotalToolCalls == SumToolCalls(Reqs)

\* A loop with a maximum round count of one: after it, a response is taken
\* as the final answer.
ModelRespondCapped(r) ==
  /\ req[r].pc = "awaitModel"
  /\ \/ /\ envModel
        /\ \E c \in FinalContents : req' = [req EXCEPT ![r] = FinalAnswer(@, c)]
     \/ /\ envModel
        /\ req[r].rounds < 1
        /\ TotalToolCalls < MaxToolCalls
        /\ \E calls \in Batches(r, req[r].toolCalls, MaxToolCalls - TotalToolCalls) :
             req' = [req EXCEPT ![r] = ToolRound(@, calls)]
     \/ req' = [req EXCEPT ![r] = Fail(@)]
  /\ UNCHANGED regVars

\* part_002:29-46: the chat-completion call settles.
ModelRespond(r) ==
  /\ req[r].pc = "awaitModel"
  /\ \/ /\ envModel
        /\ \E c \in FinalContents : req' = [req EXCEPT ![r] = FinalAnswer(@, c)]
     \/ /\ envModel
        /\ TotalToolCalls < MaxToolCalls
        /\ \E calls \in Batches(r, req[r].toolCalls, MaxToolCalls - TotalToolCalls) :
             req' = [req EXCEPT ![r] = ToolRound(@, calls)]
     \/ req' = [req EXCEPT ![r] = Fail(@)]
  /\ UNCHANGED regVars

\* part_002:46-51 and part_000:33-34: one iteration up to its await.
ForTool(r) ==
  /\ req[r].pc = "forTool"
  /\ LET toolCall == req[r].message.tool_calls[req[r].tc]
     IN IF JSONParse(toolCall.function.arguments).ok
        THEN GetMCPClient(r, [req[r] EXCEPT !.pc = "callMCP"])
        ELSE /\ req' = [req EXCEPT ![r] = Fail(@)]
             /\ UNCHANGED regVars

\* part_000:35 and part_002:51-64: client.callTool settles.
ToolDone(r) ==
  /\ req[r].pc = "awaitTool"
  /\ \/ /\ req[r].toolLive
        /\ \E c \in ToolContents : req' = [req EXCEPT ![r] = Returned(@, c)]
     \/ /\ req[r].toolLive
        /\ \E e \in ToolErrors : req' = [req EXCEPT ![r] = Caught(@, e)]
     \/ /\ ~req[r].toolLive
        /\ req' = [req EXCEPT ![r] = Caught(@, NotConnected)]
  /\ UNCHANGED regVars

Next ==
  /\ \E r \in Reqs :
       \/ POST(r)
       \/ ConnectDone(r)
       \/ ListToolsDone(r)
       \/ ModelRespond(r)
       \/ ForTool(r)
       \/ ToolDone(r)
  /\ UNCHANGED <<envModel, chatVars, modalVars, dash>>

Spec == Init /\ [][Next]_vars

\* ------------------------------------------------------- the chat surface
\* page.tsx, the component Home.  A step of the surface is a call of an
\* event handler or the continuation of sendMessage after one of its awaits.
\* The state updates of a step reach the handlers when React has rendered
\* Home again, which is a step of its own (Commit): React renders after the
\* task that made the updates, so a handler called a second time within that
\* task still closes over the previous render.  The change of a controlled
\* field is rendered within its event.

\* What the user types into the field.
Inputs == { " ", "hi", "list my services" }

RECURSIVE TrimStart(_)
TrimStart(s) ==
  IF Len(s) > 0 /\ SubSeq(s, 1, 1) = " "
  THEN TrimStart(SubSeq(s, 2, Len(s))) ELSE s

RECURSIVE TrimEnd(_)
TrimEnd(s) ==
  IF Len(s) > 0 /\ SubSeq(s, Len(s), Len(s)) = " "
  THEN TrimEnd(SubSeq(s, 1, Len(s) - 1)) ELSE s

\* String.prototype.trim
Trim(s) == TrimEnd(TrimStart(s))

\* page.tsx:38; the text starts with a cross-mark emoji, written [x] here.
ErrorText == JSStr("[x] Error connecting to backend or MCP server.")

\* What fetch settles with: the responses POST /api/chat gives, or a
\* rejection when the request does not get through.
NetworkError == [status |-> 0, content |-> JSNull]
ServerResponses ==
  { FinalAnswer(NewRequest, c).response : c \in FinalContents }
    \cup { Fail(NewRequest).response }
FetchOutcomes == ServerResponses \cup { NetworkError }

\* res.json(): the body of a 200 is the JSON object { content }, the body
\* of a 500 is not JSON.
ResJson(res) ==
  IF res.status = 200 THEN [ok |-> TRUE, data |-> [content |-> res.content]]
  ELSE [ok |-> FALSE]

\* page.tsx:18 without the test of isLoading
GuardNoLoading(h) == Trim(h.input) = ""

\* page.tsx:18, on the state the handler closes over: TRUE when it returns
Guard(h) == Trim(h.input) = "" \/ h.isLoading

\* page.tsx:102, onChange of the field; a disabled field takes no input.
SetInput ==
  /\ ~view.isLoading
  /\ \E text \in Inputs \cup { "" } :
       /\ text # ui.input
       /\ ui' = [ui EXCEPT !.input = text]
  /\ view' = ui'
  /\ UNCHANGED sends

\* A catch block without the finally that follows it.
CatchNoFinally(h) ==
  [h EXCEPT !.messages = Append(@, [role |-> "assistant", content |-> ErrorText])]

\* page.tsx:37-40, the catch block, then finally
Catch(h) ==
  [h EXCEPT !.messages = Append(@, [role |-> "assistant", content |-> ErrorText]),
            !.isLoading = FALSE]

\* A completion that appends the answer twice.
AnswerTwice(h, data) ==
  LET m == [role |-> "assistant", content |-> data.content]
  IN [h EXCEPT !.messages = Append(Append(@, m), m), !.isLoading = FALSE]

\* A completion that shows the answer as the tool result it was made from.
AnswerAsTool(h, data) ==
  [h EXCEPT !.messages = Append(@, [role |-> "tool", tool_call_id |-> <<1, 1>>,
                                    content |-> data.content]),
            !.isLoading = FALSE]

\* page.tsx:35, then finally
Answer(h, data) ==
  [h EXCEPT !.messages = Append(@, [role |-> "assistant", content |-> data.content]),
            !.isLoading = FALSE]

\* A request body that carries the new message only.
BodyStale(h, userMsg) == << userMsg >>

\* page.tsx:29-31
Body(h, userMsg) == Append(h.messages, userMsg)

\* page.tsx:17-32: Enter in the field or a click on Send, up to the await
\* of fetch.  The handler reads the state of the committed render (view);
\* its updater functions act on the current state (ui).
SendMessage ==
  /\ Len(sends) < MaxSubmits
  /\ IF Guard(view) THEN UNCHANGED chatVars
     ELSE LET userMsg == [role |-> "user", content |-> JSStr(view.input)]
          IN /\ ui' = [ui EXCEPT !.messages = Append(@, userMsg),
                                 !.input = "",
                                 !.isLoading = TRUE]
             /\ sends' = Append(sends, [pc |-> "fetch",
                                        body |-> Body(view, userMsg),
                                        res |-> NetworkError])
             /\ UNCHANGED view

\* page.tsx:26-34: fetch settles.
FetchSettle(i) ==
  /\ sends[i].pc = "fetch"
  /\ \E res \in FetchOutcomes :
       IF res = NetworkError
       THEN /\ ui' = Catch(ui)
            /\ sends' = [sends EXCEPT ![i].pc = "done"]
       ELSE /\ sends' = [sends EXCEPT ![i].pc = "json", ![i].res = res]
            /\ ui' = ui
  /\ UNCHANGED view

\* page.tsx:34-43: res.json() settles.
JsonSettle(i) ==
  /\ sends[i].pc = "json"
  /\ LET parsed == ResJson(sends[i].res)
     IN ui' = IF parsed.ok THEN Answer(ui, parsed.data) ELSE Catch(ui)
  /\ sends' = [sends EXCEPT ![i].pc = "done"]
  /\ UNCHANGED view

\* React renders Home with the state updates made so far.
Commit ==
  /\ view # ui
  /\ view' = ui
  /\ UNCHANGED <<ui, sends>>

NextChat ==
  /\ \/ SetInput
     \/ SendMessage
     \/ \E i \in DOMAIN sends : FetchSettle(i)
     \/ \E i \in DOMAIN sends : JsonSettle(i)
     \/ Commit
  /\ UNCHANGED <<serverVars, modalVars, dash>>

\* The surface against a configured backend.
InitChat == Init /\ envUrl /\ envModel

SpecChat == InitChat /\ [][NextChat]_vars

\* ------------------------------------------------------------------ claims
IsPrefix(s, t) == Len(s) <= Len(t) /\ SubSeq(t, 1, Len(s)) = s

IsToolRound(m) == m.role = "assistant" /\ Len(m.tool_calls) > 0

\* The positions of h that hold a tool result for the tool call id.
ResultsFor(h, id) ==
  { k \in 1..Len(h) : h[k].role = "tool" /\ h[k].tool_call_id = id }

ToolResults(h) == { k \in 1..Len(h) : h[k].role = "tool" }

\* Every tool-call request of h has exactly one result, and the results of a
\* response with N requests are the N messages that follow it.
Paired(h) ==
  \A i \in 1..Len(h) :
    IsToolRound(h[i]) =>
      LET calls == h[i].tool_calls
      IN /\ i + Len(calls) <= Len(h)
         /\ \A j \in 1..Len(calls) :
              /\ ResultsFor(h, calls[j].id) = {i + j}
         /\ (i + Len(calls) < Len(h) => h[i + Len(calls) + 1].role # "tool")

StartsWithError(c) ==
  c.type = "string" /\ Len(c.v) >= 6 /\ SubSeq(c.v, 1, 6) = "Error:"

Sentinel == JSStr("No response.")

\* C1: whenever a request has a chat-completion call in flight, the messages
\* it sent are its whole conversation, and in them every tool-call request is
\* followed by exactly one tool result with its id: a response with N
\* requests by exactly N results, none missing, none twice.
C1_ToolCallsPaired ==
  \A r \in Reqs :
    req[r].pc = "awaitModel" =>
      /\ req[r].sent = req[r].currentMessages
      /\ Paired(req[r].sent)
      /\ Cardinality(ToolResults(req[r].sent)) = req[r].toolCalls

C1_Witness ==
  \E r \in Reqs :
    /\ req[r].pc = "awaitModel"
    /\ \E i \in 1..Len(req[r].sent) :
         /\ IsToolRound(req[r].sent[i])
         /\ Len(req[r].sent[i].tool_calls) = 2

\* C2 as stated: a request whose first model response has no tool calls ends
\* after one model call, without a tool invocation, and answers with that
\* response's content verbatim.
C2_FirstAnswerVerbatim ==
  \A r \in Reqs :
    (req[r].pc = "done" /\ req[r].rounds = 0) =>
      /\ req[r].modelCalls = 1
      /\ req[r].toolInvocations = 0
      /\ req[r].response = [status |-> 200, content |-> req[r].message.content]

\* C2, amended: such a request ends after one model call, without a tool
\* invocation, and answers with that response's content verbatim when the
\* content is a non-empty string, and with "No response." when it is empty or
\* absent.
C2_FirstAnswer ==
  \A r \in Reqs :
    (req[r].pc = "done" /\ req[r].rounds = 0) =>
      /\ req[r].modelCalls = 1
      /\ req[r].toolInvocations = 0
      /\ req[r].message.role = "assistant"
      /\ req[r].response =
           [status |-> 200,
            content |-> IF Truthy(req[r].message.content)
                        THEN req[r].message.content ELSE Sentinel]

C2_Witness ==
  \E r \in Reqs :
    /\ req[r].pc = "done"
    /\ req[r].rounds = 0
    /\ req[r].response.content = JSStr("You have 1 service: S1.")

\* The step of request r in which the tool invocation it awaits raises.
ToolRaises(r) ==
  /\ req[r].pc = "awaitTool"
  /\ \E e \in ToolErrors \cup {NotConnected} :
       req' = [req EXCEPT ![r] = Caught(@, e)]

\* C3: when a tool invocation raises, one tool result with the id of that
\* tool call and a content that begins with "Error:" is appended, the request
\* does not fail, and it goes on: to the next tool call of the batch, or, after
\* the last one, to the next model call, which is sent that result.
C3_RaiseBecomesResult ==
  [][\A r \in Reqs :
       ToolRaises(r) =>
         LET h == req'[r].currentMessages
             id == req[r].message.tool_calls[req[r].tc].id
         IN /\ Len(h) = Len(req[r].currentMessages) + 1
            /\ IsPrefix(req[r].currentMessages, h)
            /\ h[Len(h)].role = "tool"
            /\ h[Len(h)].tool_call_id = id
            /\ StartsWithError(h[Len(h)].content)
            /\ IF req[r].tc < Len(req[r].message.tool_calls)
               THEN req'[r].pc = "forTool" /\ req'[r].tc = req[r].tc + 1
               ELSE /\ req'[r].pc = "awaitModel"
                    /\ req'[r].sent = h
                    /\ req'[r].modelCalls = req[r].modelCalls + 1]_vars

\* An error result is in the messages of a model call in flight.
C3_Witness ==
  \E r \in Reqs :
    /\ req[r].pc = "awaitModel"
    /\ \E k \in ToolResults(req[r].sent) :
         req[r].sent[k].content = JSStr("Error: boom")

\* C4 as stated: processing one tool call of a batch, the preparation of its
\* arguments included, never aborts the request.
C4_ToolCallNeverAborts ==
  [][\A r \in Reqs :
       req[r].pc \in {"forTool", "callMCP", "awaitTool"} =>
         req'[r].pc # "failed"]_vars

\* C5: once a call of getMCPClient has completed the handshake, every call
\* that returns hands back the one cached client and the one cached tool-list
\* object, callMCPTool calls the tool on that client, and no second connect
\* or listTools is ever started.
C5_ConnectIdempotent ==
  /\ nConnects <= 1
  /\ nLists <= 1
  /\ nClients <= 1
  /\ \A r, s \in Reqs :
       (req[r].ret.afterInit /\ req[s].ret.afterInit) =>
         /\ req[r].ret.client = req[s].ret.client
         /\ req[r].ret.tools = req[s].ret.tools
  /\ \A r \in Reqs : req[r].ret.set => req[r].ret.client = mcpClient
  /\ \A r \in Reqs :
       req[r].ret.afterInit =>
         /\ req[r].ret.tools = tools
         /\ req[r].pc = "awaitTool" => req[r].toolClient = mcpClient

\* Two requests hold the value of a call made after the handshake, and one of
\* them has called a tool with it.
C5_Witness ==
  \E r, s \in Reqs :
    /\ r # s
    /\ req[r].ret.afterInit
    /\ req[s].ret.afterInit
    /\ req[s].pc = "awaitTool"
    /\ nConnects = 1
    /\ nLists = 1

\* No call of getMCPClient is between its first await and its return.
RegistryQuiet == \A r \in Reqs : req[r].gpc = "none"

\* C6 as stated: a failed attempt leaves nothing behind. When no call of
\* getMCPClient is under way, the registry either is empty, so that the next
\* call connects, or holds a connected client with its tool list.
C6_FailedAttemptNotCached ==
  (RegistryQuiet /\ mcpClient # 0) =>
    (mcpClient \in connected /\ tools # 0)

\* C7 as stated: every call of getMCPClient that returns hands back a
\* connected client and the complete tool list.
C7_ReturnsInitialized ==
  \A r \in Reqs :
    req[r].ret.set =>
      /\ req[r].ret.live
      /\ ToolsOf(req[r].ret.tools) = ProviderTools

InLoop(r) == req[r].pc \in {"awaitModel", "forTool", "callMCP", "awaitTool"}

\* The tool results request r has appended so far.
ResultsSoFar(r) ==
  IF req[r].pc = "awaitModel" THEN req[r].toolCalls
  ELSE req[r].toolCalls - Len(req[r].message.tool_calls) + req[r].tc - 1

\* C8 as stated: after k tool rounds and an answer without tool calls the
\* request has made k + 1 model calls and answers with the content of the
\* final model response.
C8_FinalContentVerbatim ==
  \A r \in Reqs :
    (req[r].pc = "done" /\ req[r].rounds >= 1) =>
      /\ req[r].modelCalls = req[r].rounds + 1
      /\ req[r].response = [status |-> 200, content |-> req[r].message.content]

\* C8, amended: after k tool rounds and an answer without tool calls the
\* request has made k + 1 model calls; the model call after round i is sent
\* the submitted history, the i assistant messages and every tool result of
\* rounds 1..i; and the response is {content: c}, c the content of the final
\* model response when it is a non-empty string and "No response." when it is
\* empty or absent.
C8_RoundsThenAnswer ==
  \A r \in Reqs :
    /\ req[r].pc = "done" =>
         /\ req[r].modelCalls = req[r].rounds + 1
         /\ req[r].toolInvocations = req[r].toolCalls
         /\ req[r].response =
              [status |-> 200,
               content |-> IF Truthy(req[r].message.content)
                           THEN req[r].message.content ELSE Sentinel]
    /\ req[r].pc = "awaitModel" =>
         /\ req[r].modelCalls = req[r].rounds + 1
         /\ IsPrefix(req[r].messages, req[r].sent)
         /\ Len(req[r].sent) = Len(req[r].messages) + req[r].rounds + req[r].toolCalls
         /\ Cardinality(ToolResults(req[r].sent)) = req[r].toolCalls
         /\ Cardinality({i \in 1..Len(req[r].sent) : IsToolRound(req[r].sent[i])})
              = req[r].rounds

\* The scenario of the specification, with one more round.
C8_Witness ==
  \E r \in Reqs :
    /\ req[r].pc = "done"
    /\ req[r].rounds = 2
    /\ req[r].modelCalls = 3
    /\ req[r].response = [status |-> 200, content |-> JSStr("You have 1 service: S1.")]

\* The tool-call ids of message m all belong to run r.
OfRun(m, r) ==
  /\ m.role = "tool" => m.tool_call_id[1] = r
  /\ m.role = "assistant" =>
       \A j \in 1..Len(m.tool_calls) : m.tool_calls[j].id[1] = r
  /\ m.role \in {"tool", "assistant"}

\* C9: a run works on its own copy of the submitted messages. The caller's
\* array stays as submitted, the first model call is sent exactly the
\* submitted messages, and the conversation is the submitted messages followed
\* by the messages this run has appended and by no others.
C9_RunsIndependent ==
  \A r \in Reqs :
    /\ req[r].pc = "getMCP" =>
         (req[r].messages \in Histories /\ req[r].currentMessages = << >>)
    /\ InLoop(r) =>
         /\ req[r].messages \in Histories
         /\ IsPrefix(req[r].messages, req[r].currentMessages)
         /\ Len(req[r].currentMessages) =
              Len(req[r].messages) + req[r].rounds + ResultsSoFar(r)
         /\ \A k \in Len(req[r].messages) + 1 .. Len(req[r].currentMessages) :
              OfRun(req[r].currentMessages[k], r)
         /\ req[r].modelCalls = 1 => req[r].sent = req[r].messages

\* The same history is submitted twice; one run has appended to its
\* conversation when the other makes its first model call.
C9_Witness ==
  \E r, s \in Reqs :
    /\ r # s
    /\ InLoop(r)
    /\ req[s].pc = "awaitModel"
    /\ req[s].modelCalls = 1
    /\ req[r].messages = req[s].messages
    /\ Len(req[r].currentMessages) > Len(req[r].messages) + 1

\* C10: a final response whose content is empty or absent does not fail the
\* request: the response is {content: "No response."}.
C10_EmptyContentSentinel ==
  \A r \in Reqs :
    (req[r].pc = "done" /\ ~Truthy(req[r].message.content)) =>
      req[r].response = [status |-> 200, content |-> Sentinel]

C10_Witness ==
  \E r, s \in Reqs :
    /\ req[r].pc = "done"
    /\ req[r].message.content = JSStr("")
    /\ req[s].pc = "done"
    /\ req[s].message.content = JSNull
    /\ req[s].rounds = 1

\* ------------------------------------------------ the incident detail modal
\* IncidentDetailModal.jsx.  A step is the change of the incidentId prop with
\* the effect it triggers, a handler call up to its first await, or the
\* continuation of a call after an await.  A call keeps the incidentId of
\* the render it was made in.

\* The incidents the modal is opened for.
Ids == { "P1", "P2" }
Statuses == { "triggered", "resolved" }

\* What is typed into the note field.
Notes == { " ", "restarted" }

\* An item the backend lists for incident id, as answered to load k.
Item(id, k) == [id |-> id, load |-> k]

\* The incident of id as the backend answers it to load k.
Incident(id, k, st) == [id |-> id, load |-> k, status |-> st]

\* What fetchIncident(id) resolves with in load k: the enriched answer
\* { incident, alerts, notes, log_entries }, or a triggered incident alone.
IncidentAnswers(id, k) ==
  { [incident |-> Incident(id, k, st),
     alerts |-> << Item(id, k) >>,
     notes |-> << Item(id, k) >>,
     log_entries |-> << Item(id, k) >>] : st \in Statuses }
    \cup { Incident(id, k, "triggered") }

\* What Promise.allSettled gives for one promise.
Rejected == [status |-> "rejected"]
Fulfilled(v) == [status |-> "fulfilled", value |-> v]

\* The three results of IncidentDetailModal.jsx:63-67 for load k of id.
Settlements(id, k) ==
  [ incidentData : { Fulfilled(v) : v \in IncidentAnswers(id, k) } \cup { Rejected },
    relatedData : { Fulfilled([related_incidents |-> << Item(id, k) >>]), Rejected },
    pastData : { Fulfilled([past_incidents |-> << Item(id, k) >>]), Rejected } ]

\* d.f || dflt, for an object d that may lack the field f
FieldOr(d, f, dflt) == IF f \in DOMAIN d THEN d[f] ELSE dflt

\* IncidentDetailModal.jsx:69-76 without the test of the status
OnIncidentAlways(m, r) ==
  IF r.status = "fulfilled"
  THEN [m EXCEPT !.incident = FieldOr(r.value, "incident", r.value),
                 !.alerts = FieldOr(r.value, "alerts", << >>),
                 !.notes = FieldOr(r.value, "notes", << >>),
                 !.logEntries = FieldOr(r.value, "log_entries", << >>)]
  ELSE [m EXCEPT !.incident = NoIncident, !.alerts = << >>,
                 !.notes = << >>, !.logEntries = << >>]

\* IncidentDetailModal.jsx:69-76
OnIncident(m, r) ==
  IF r.status = "fulfilled"
  THEN [m EXCEPT !.incident = FieldOr(r.value, "incident", r.value),
                 !.alerts = FieldOr(r.value, "alerts", << >>),
                 !.notes = FieldOr(r.value, "notes", << >>),
                 !.logEntries = FieldOr(r.value, "log_entries", << >>)]
  ELSE m

\* IncidentDetailModal.jsx:77-79
OnRelated(m, r) ==
  IF r.status = "fulfilled"
  THEN [m EXCEPT !.relatedIncidents = FieldOr(r.value, "related_incidents", << >>)]
  ELSE m

\* IncidentDetailModal.jsx:80-82
OnPast(m, r) ==
  IF r.status = "fulfilled"
  THEN [m EXCEPT !.pastIncidents = FieldOr(r.value, "past_incidents", << >>)]
  ELSE m

\* IncidentDetailModal.jsx:60
LoadStarts(m) == [m EXCEPT !.loading = TRUE]

\* IncidentDetailModal.jsx:69-87, once allSettled has resolved with s
LoadEnds(m, s) ==
  [OnPast(OnRelated(OnIncident(m, s.incidentData), s.relatedData), s.pastData)
     EXCEPT !.loading = FALSE]

\* The finally block of the handler of the given kind.
Finally(m, kind) ==
  CASE kind \in {"acknowledge", "resolve"} -> [m EXCEPT !.actionLoading = "null"]
    [] kind = "note" -> [m EXCEPT !.addingNote = FALSE]
    [] OTHER -> m

NewRun(kind, pc, id, text) == [kind |-> kind, pc |-> pc, id |-> id, text |-> text]

\* A call that has returned: its frame is gone.
Returns(run) == NewRun("none", "done", "", "")

\* IncidentDetailModal.jsx:53-57: the prop changes and the effect loads.
SetIncidentId ==
  /\ Len(runs) < MaxCalls
  /\ \E id \in Ids \ {modal.incidentId} :
       /\ modal' = LoadStarts([modal EXCEPT !.incidentId = id])
       /\ runs' = Append(runs, NewRun("load", "load", id, ""))

\* IncidentDetailModal.jsx:90-92 and 237-242: a click on Acknowledge.
HandleAcknowledge ==
  /\ Len(runs) < MaxCalls
  /\ ~modal.loading
  /\ modal.incident.status = "triggered"
  /\ modal.actionLoading # "acknowledge"
  /\ modal' = [modal EXCEPT !.actionLoading = "acknowledge"]
  /\ runs' = Append(runs, NewRun("acknowledge", "request", modal.incidentId, ""))

\* IncidentDetailModal.jsx:102-104 and 251-256: a click on Resolve.
HandleResolve ==
  /\ Len(runs) < MaxCalls
  /\ ~modal.loading
  /\ modal.incident.status # "resolved"
  /\ modal.actionLoading # "resolve"
  /\ modal' = [modal EXCEPT !.actionLoading = "resolve"]
  /\ runs' = Append(runs, NewRun("resolve", "request", modal.incidentId, ""))

\* IncidentDetailModal.jsx:621-623
SetNewNote ==
  /\ ~modal.loading
  /\ \E text \in Notes \cup { "" } :
       /\ text # modal.newNote
       /\ modal' = [modal EXCEPT !.newNote = text]
  /\ UNCHANGED runs

\* IncidentDetailModal.jsx:114-118: handleAddNote up to its await.
HandleAddNote ==
  /\ Len(runs) < MaxCalls
  /\ ~modal.loading
  /\ ~modal.addingNote
  /\ IF Trim(modal.newNote) = "" THEN UNCHANGED modalVars
     ELSE /\ modal' = [modal EXCEPT !.addingNote = TRUE]
          /\ runs' = Append(runs, NewRun("note", "request", modal.incidentId,
                                         modal.newNote))

\* A note request after which the typed text stays in the field.
NoteKept(m, kind) == m

\* IncidentDetailModal.jsx:119, after the note request succeeded
NoteSent(m, kind) == IF kind = "note" THEN [m EXCEPT !.newNote = ""] ELSE m

\* IncidentDetailModal.jsx:92-99, 104-111, 118-125 and api.js:8-13: the
\* request of a handler settles.
RequestSettle(i) ==
  /\ runs[i].pc = "request"
  /\ \/ /\ modal' = LoadStarts(NoteSent(modal, runs[i].kind))
        /\ runs' = [runs EXCEPT ![i].pc = "load"]
     \/ /\ modal' = Finally(modal, runs[i].kind)
        /\ runs' = [runs EXCEPT ![i] = Returns(@)]

\* IncidentDetailModal.jsx:63-87: the three fetches of a load have settled;
\* the handler that awaited the load runs its finally block.
LoadSettle(i) ==
  /\ runs[i].pc = "load"
  /\ \E s \in Settlements(runs[i].id, i) :
       modal' = Finally(LoadEnds(modal, s), runs[i].kind)
  /\ runs' = [runs EXCEPT ![i] = Returns(@)]

NextModal ==
  /\ \/ SetIncidentId
     \/ HandleAcknowledge
     \/ HandleResolve
     \/ SetNewNote
     \/ HandleAddNote
     \/ \E i \in DOMAIN runs : RequestSettle(i)
     \/ \E i \in DOMAIN runs : LoadSettle(i)
  /\ UNCHANGED <<serverVars, chatVars, dash>>

InitModal == Init /\ envUrl /\ envModel

SpecModal == InitModal /\ [][NextModal]_vars

\* ------------------------------------------------- claims, chat surface
\* The sendMessage calls whose request has not completed.
InFlight == { i \in DOMAIN sends : sends[i].pc # "done" }

\* C11: at most one /api/chat request is in flight at any time, whatever the
\* sequence of submit attempts.
C11_OneInFlight == Cardinality(InFlight) <= 1

UserMessage(text) == [role |-> "user", content |-> JSStr(text)]
AssistantMessage(c) == [role |-> "assistant", content |-> c]

\* A step in which sendMessage goes past its guard.
Accepted == Len(sends') = Len(sends) + 1

\* A step in which the i-th accepted sendMessage call ends.
Completes(i) == sends[i].pc # "done" /\ sends'[i].pc = "done"

\* What the i-th call shows when it ends in the step: the content the
\* backend answered, or the error text when no answer was received.
Shown(i) ==
  IF sends'[i].res.status = 200 THEN sends'[i].res.content ELSE ErrorText

\* C12: an accepted submit appends exactly one user message, the text of the
\* field, in the same step; the completion of its request appends exactly
\* one assistant message, the backend's answer or the fixed error text; no
\* other step changes the history.
C12_OneUserOneAssistant ==
  [][ /\ Accepted =>
           ui'.messages = Append(ui.messages, UserMessage(view.input))
      /\ \A i \in DOMAIN sends :
           Completes(i) =>
             ui'.messages = Append(ui.messages, AssistantMessage(Shown(i)))
      /\ (~Accepted /\ \A i \in DOMAIN sends : ~Completes(i)) =>
           ui'.messages = ui.messages ]_vars

\* Two turns are over: one was answered, the other ended in the error text.
C12_Witness ==
  /\ Len(sends) = 2
  /\ InFlight = {}
  /\ Len(ui.messages) = 4
  /\ \E i, j \in DOMAIN sends :
       /\ sends[i].res.status = 200
       /\ sends[j].res.status # 200
  /\ \E k \in DOMAIN ui.messages : ui.messages[k] = AssistantMessage(ErrorText)
  /\ \E k \in DOMAIN ui.messages :
       /\ ui.messages[k].role = "assistant"
       /\ ui.messages[k].content # ErrorText

\* C13: the request an accepted submit issues carries the history displayed
\* just before the submit, in order, followed by the new user message.
C13_BodyIsHistoryPlusNew ==
  [][ Accepted =>
        sends'[Len(sends')].body =
          Append(view.messages, UserMessage(view.input)) ]_vars

\* The second turn of a conversation is in flight: its request carries the
\* first turn's two messages and the new one.
C13_Witness ==
  /\ Len(sends) = 2
  /\ sends[1].pc = "done"
  /\ sends[2].pc = "fetch"
  /\ Len(sends[2].body) = 3
  /\ SubSeq(sends[2].body, 1, 2) = SubSeq(ui.messages, 1, 2)
  /\ sends[2].body[2].role = "assistant"

\* The user message the i-th accepted call appended.
OwnMessage(i) == sends[i].body[Len(sends[i].body)]

\* C14: when a chat request ends without an answer (the network fails, or
\* /api/chat answers 500 because the registry connection or the model call
\* failed), the error text is appended as the assistant turn, the messages
\* shown before stay, the user's own message among them, and isLoading is
\* false again; with no request in flight left, submission is enabled.
C14_ErrorShownInputKept ==
  [][ /\ \A i \in DOMAIN sends :
           (Completes(i) /\ sends'[i].res.status # 200) =>
             /\ ui'.messages = Append(ui.messages, AssistantMessage(ErrorText))
             /\ \E k \in DOMAIN ui.messages : ui'.messages[k] = OwnMessage(i)
             /\ ~ui'.isLoading
      /\ (InFlight' = {}) => ~ui'.isLoading ]_vars

\* One turn ended by a 500 of the backend, one by a network failure; both
\* are rendered, and the field accepts input again.
C14_Witness ==
  /\ Len(sends) = 2
  /\ InFlight = {}
  /\ sends[1].res = Fail(NewRequest).response
  /\ sends[2].res = NetworkError
  /\ view = ui
  /\ ~view.isLoading
  /\ ui.messages = << OwnMessage(1), AssistantMessage(ErrorText),
                      OwnMessage(2), AssistantMessage(ErrorText) >>

\* ----------------------------------------------- claims, backend (cont.)
\* A step in which the chat-completion call of request r fails.
ModelFails(r) == req[r].pc = "awaitModel" /\ req'[r].response.status = 500

\* C15: a failed chat-completion call ends its request and nothing else: the
\* request has failed and makes no model call or tool invocation from then
\* on, the registry (client, tool list, connections) is as it was, and the
\* other requests are not touched.
C15_ModelFailureLocal ==
  [][ \A r \in Reqs :
        /\ ModelFails(r) =>
             /\ req'[r].pc = "failed"
             /\ req'[r].modelCalls = req[r].modelCalls
             /\ req'[r].toolInvocations = req[r].toolInvocations
             /\ UNCHANGED regVars
             /\ \A s \in Reqs \ {r} : req'[s] = req[s]
        /\ req[r].response.status = 500 => req'[r] = req[r] ]_vars

\* The first request failed in its first model call; the second one found
\* the registry initialised, ran a tool round and answered.
C15_Witness ==
  /\ req[1].pc = "failed"
  /\ req[1].modelCalls = 1
  /\ req[1].toolCalls = 0
  /\ req[1].ret.set
  /\ req[2].pc = "done"
  /\ req[2].ret.afterInit
  /\ req[2].rounds = 1
  /\ req[2].toolInvocations = 1
  /\ req[2].response.status = 200

\* C16: with a required configuration value missing, a request fails before
\* it makes a model call or a tool invocation.
C16_ConfigFailsFast ==
  (~envUrl \/ ~envModel) =>
    \A r \in Reqs : req[r].modelCalls = 0 /\ req[r].toolInvocations = 0

\* Request r is inside the for loop over the tool calls of a response.
InBatch(r) == req[r].pc \in {"forTool", "callMCP", "awaitTool"}

\* The tool calls of the current batch that are over.
Over(r) ==
  IF req[r].pc = "awaitModel" THEN Len(req[r].message.tool_calls)
  ELSE req[r].tc - 1

\* C17: inside a batch the loop is at one tool call, tc, and the calls before
\* it are over; the conversation ends with the assistant message followed by
\* the results of the calls that are over, one each and in the order of the
\* calls (all of them when the batch is left for the next model call); an
\* invocation is under way for call tc at most, and every invocation made
\* before it has its result in the conversation.
C17_OneAtATimeInOrder ==
  \A r \in Reqs :
    (InLoop(r) /\ IsToolRound(req[r].message)) =>
      LET q == req[r]
          calls == q.message.tool_calls
          h == q.currentMessages
          base == Len(h) - Over(r)
      IN /\ InBatch(r) => q.tc \in 1..Len(calls)
         /\ base >= 1
         /\ h[base] = q.message
         /\ \A j \in 1..Over(r) :
              /\ h[base + j].role = "tool"
              /\ h[base + j].tool_call_id = calls[j].id
         /\ q.toolInvocations - (IF q.pc = "awaitTool" THEN 1 ELSE 0)
              <= ResultsSoFar(r)

\* The second call of a batch of two is being invoked; the first one was
\* invoked and has its result.
C17_Witness ==
  \E r \in Reqs :
    /\ req[r].pc = "awaitTool"
    /\ req[r].tc = 2
    /\ Len(req[r].message.tool_calls) = 2
    /\ req[r].toolInvocations = 2
    /\ req[r].currentMessages[Len(req[r].currentMessages)].tool_call_id
         = req[r].message.tool_calls[1].id

\* A step in which a model response with tool calls reaches request r.
ToolRoundStep(r) == req[r].pc = "awaitModel" /\ req'[r].pc = "forTool"

\* C18: the step that receives a response with tool calls appends the
\* assistant message with the tool calls as the model gave them, and invokes
\* no tool; a tool is invoked only inside the batch, with that message in the
\* conversation; and while the batch lasts messages are only appended, so
\* every result of the batch stands after it.
C18_AssistantMessageFirst ==
  [][ \A r \in Reqs :
        /\ ToolRoundStep(r) =>
             /\ \E calls \in Batches(r, req[r].toolCalls, MaxToolCalls) :
                  LET m == [role |-> "assistant", content |-> JSNull,
                            tool_calls |-> calls]
                  IN /\ req'[r].message = m
                     /\ req'[r].currentMessages =
                          Append(req[r].currentMessages, m)
             /\ req'[r].toolInvocations = req[r].toolInvocations
        /\ req'[r].toolInvocations # req[r].toolInvocations =>
             /\ InBatch(r)
             /\ \E k \in DOMAIN req[r].currentMessages :
                  /\ req[r].currentMessages[k] = req[r].message
                  /\ ToolResults(req[r].currentMessages) \subseteq
                       1..(k + req[r].tc - 1) \ {k}
        /\ (InBatch(r) /\ InLoop(r)') =>
             /\ req'[r].message = req[r].message
             /\ IsPrefix(req[r].currentMessages, req'[r].currentMessages) ]_vars

\* The response of the second round, a tool call with malformed arguments,
\* has just been appended; the only invocation so far is the first round's.
C18_Witness ==
  \E r \in Reqs :
    /\ req[r].pc = "forTool"
    /\ req[r].tc = 1
    /\ Len(req[r].message.tool_calls) = 1
    /\ req[r].rounds = 2
    /\ req[r].message.tool_calls[1].function.arguments = "{bad"
    /\ req[r].currentMessages[Len(req[r].currentMessages)] = req[r].message
    /\ req[r].toolInvocations = 1

\* The states of the loop of request r.
AwaitingModel(r) == req[r].pc = "awaitModel"
ExecutingTools(r) == InBatch(r)
FinalAnswerState(r) == req[r].pc = "done"

\* C19: the loop starts in AwaitingModel, its first model call sent the
\* caller's messages; from AwaitingModel a response without tool calls leads
\* to FinalAnswer and one with tool calls to ExecutingTools, and these are the
\* only ways into the two; ExecutingTools is left for AwaitingModel (or by
\* the failure of the request); a model call is made on entering AwaitingModel
\* only; after FinalAnswer the request does nothing.
C19_LoopStateMachine ==
  [][ \A r \in Reqs :
        /\ (req[r].modelCalls = 0 /\ req'[r].modelCalls # 0) =>
             /\ AwaitingModel(r)'
             /\ req'[r].modelCalls = 1
             /\ req'[r].sent = req'[r].messages
             /\ req'[r].currentMessages = req'[r].messages
             /\ req'[r].toolInvocations = 0
        /\ (AwaitingModel(r) /\ req'[r] # req[r]) =>
             \/ FinalAnswerState(r)' /\ req'[r].message.role = "assistant"
                                     /\ req'[r].message.tool_calls = << >>
             \/ ExecutingTools(r)' /\ Len(req'[r].message.tool_calls) >= 1
             \/ req'[r].pc = "failed" /\ req'[r].message = req[r].message
        /\ (FinalAnswerState(r)' /\ ~FinalAnswerState(r)) => AwaitingModel(r)
        /\ (ExecutingTools(r)' /\ ~ExecutingTools(r)) => AwaitingModel(r)
        /\ (ExecutingTools(r) /\ ~ExecutingTools(r)') =>
             \/ AwaitingModel(r)'
             \/ req'[r].pc = "failed"
        /\ req'[r].modelCalls # req[r].modelCalls =>
             /\ req'[r].modelCalls = req[r].modelCalls + 1
             /\ AwaitingModel(r)'
             /\ ~AwaitingModel(r)
        /\ FinalAnswerState(r) => req'[r] = req[r] ]_vars

\* A request went AwaitingModel, ExecutingTools, AwaitingModel, FinalAnswer;
\* another one went from AwaitingModel straight to FinalAnswer.
C19_Witness ==
  \E r, s \in Reqs :
    /\ FinalAnswerState(r)
    /\ req[r].rounds = 1
    /\ req[r].modelCalls = 2
    /\ FinalAnswerState(s)
    /\ req[s].rounds = 0
    /\ req[s].modelCalls = 1

\* C20: the loop has no round count of its own.  Whatever the number of
\* rounds so far, a request in AwaitingModel goes to ExecutingTools for one
\* more round when the response has tool calls (as long as the model has
\* tool calls left to emit, MaxToolCalls) and to FinalAnswer when it has none;
\* FinalAnswer is reached on a response without tool calls only, after one
\* model call per round and one more.
C20_NoRoundLimit ==
  \A r \in Reqs :
    /\ (AwaitingModel(r) /\ envModel) =>
         /\ ENABLED (ModelRespond(r) /\ FinalAnswerState(r)')
         /\ TotalToolCalls < MaxToolCalls =>
              ENABLED (/\ ModelRespond(r)
                       /\ ExecutingTools(r)'
                       /\ req'[r].rounds = req[r].rounds + 1)
    /\ InLoop(r) =>
         req[r].modelCalls = req[r].rounds + (IF AwaitingModel(r) THEN 1 ELSE 0)
    /\ FinalAnswerState(r) =>
         /\ req[r].message.role = "assistant"
         /\ req[r].message.tool_calls = << >>
         /\ req[r].modelCalls = req[r].rounds + 1

\* Every response so far asked for tools: the request has run as many
\* rounds as the model had tool calls to emit and asks the model again.
C20_Witness ==
  \E r \in Reqs :
    /\ AwaitingModel(r)
    /\ req[r].rounds = MaxToolCalls
    /\ req[r].modelCalls = MaxToolCalls + 1
    /\ req[r].toolInvocations = MaxToolCalls

\* C21: the conversation of a request only grows at its end.  It starts as
\* the caller's messages; every model call is sent the whole conversation;
\* from one step to the next the conversation, and from one model call to the
\* next the messages sent, keep what they held as a prefix; the caller's
\* messages are not written.
C21_AppendOnly ==
  [][ \A r \in Reqs :
        /\ (InLoop(r) /\ InLoop(r)') =>
             /\ IsPrefix(req[r].currentMessages, req'[r].currentMessages)
             /\ IsPrefix(req[r].sent, req'[r].sent)
             /\ req'[r].messages = req[r].messages
        /\ InLoop(r)' =>
             /\ IsPrefix(req'[r].messages, req'[r].sent)
             /\ IsPrefix(req'[r].sent, req'[r].currentMessages)
             /\ AwaitingModel(r)' => req'[r].sent = req'[r].currentMessages ]_vars

\* The third model call of a request: it is sent the caller's message and
\* the assistant message and the result of each of two rounds.
C21_Witness ==
  \E r \in Reqs :
    /\ AwaitingModel(r)
    /\ req[r].modelCalls = 3
    /\ Len(req[r].sent) = Len(req[r].messages) + 4
    /\ req[r].sent[2].role = "assistant"
    /\ req[r].sent[3].role = "tool"
    /\ req[r].sent[4].role = "assistant"
    /\ req[r].sent[5].role = "tool"

\* C22: a request has made as many tool invocations as the model has emitted
\* tool-call requests, whenever it is not inside a batch.
C22_EveryToolCallInvoked ==
  \A r \in Reqs :
    ~InBatch(r) => req[r].toolInvocations = req[r].toolCalls

\* The descriptors ts and the schemas ss correspond one to one.
OneToOne(ts, ss) ==
  /\ Len(ss) = Len(ts)
  /\ \A i \in 1..Len(ts) :
       /\ ss[i].type = "function"
       /\ ss[i].function.name = ts[i].name
       /\ ss[i].function.description = ts[i].description
       /\ ss[i].function.parameters = ts[i].inputSchema

\* C23: when a request enters the loop its tool schemas correspond one to
\* one, in order, to the descriptors getMCPClient returned to it, and the
\* schemas stay the same for every model call of the request.
C23_SchemasOneToOne ==
  [][ \A r \in Reqs :
        /\ (~InLoop(r) /\ InLoop(r)') =>
             OneToOne(ToolsOf(req'[r].ret.tools), req'[r].toolSchemas)
        /\ (InLoop(r) /\ InLoop(r)') =>
             req'[r].toolSchemas = req[r].toolSchemas ]_vars

\* A request with the two schemas of the provider's two descriptors makes
\* its second model call.
C23_Witness ==
  \E r \in Reqs :
    /\ AwaitingModel(r)
    /\ req[r].modelCalls = 2
    /\ Len(req[r].toolSchemas) = 2
    /\ req[r].toolSchemas[2].function.name = "acknowledge_incident"
    /\ req[r].toolSchemas[2].function.parameters = "{id}"

\* A message of the chat surface: a user or assistant turn with a text.
PlainMessage(m) ==
  /\ DOMAIN m = {"role", "content"}
  /\ m.role \in {"user", "assistant"}
  /\ m.content.type = "string"

\* C24: the history of the chat surface, the one on display and the one sent
\* with each request, holds user and assistant messages with a text only.
C24_BlindToRounds ==
  /\ \A k \in DOMAIN ui.messages : PlainMessage(ui.messages[k])
  /\ \A k \in DOMAIN view.messages : PlainMessage(view.messages[k])
  /\ \A i \in DOMAIN sends :
       \A k \in DOMAIN sends[i].body : PlainMessage(sends[i].body[k])

\* A turn was answered by the backend and is on display; the request of the
\* next turn carries that answer.
C24_Witness ==
  /\ Len(sends) = 2
  /\ sends[1].res.status = 200
  /\ sends[1].pc = "done"
  /\ Len(view.messages) >= 2
  /\ view.messages[2] = AssistantMessage(sends[1].res.content)
  /\ sends[2].body[2] = view.messages[2]

\* C28: the history alternates user, assistant, ..., starting with a user
\* message; its length is odd exactly when isLoading is true, which is exactly
\* when a request is in flight.
C28_Alternates ==
  /\ \A k \in DOMAIN ui.messages :
       ui.messages[k].role = (IF k % 2 = 1 THEN "user" ELSE "assistant")
  /\ (Len(ui.messages) % 2 = 1) <=> ui.isLoading
  /\ ui.isLoading <=> (InFlight # {})

\* ------------------------------------------- claims, incident detail modal
\* The acknowledge and resolve calls that have not returned.
ActionsInFlight ==
  { i \in DOMAIN runs :
      runs[i].kind \in {"acknowledge", "resolve"} /\ runs[i].pc # "done" }

\* C25: while an acknowledge or resolve call is in flight actionLoading names
\* its action, and actionLoading is null only when none is in flight.
C25_ActionLoadingNamesAction ==
  /\ \A i \in ActionsInFlight : modal.actionLoading = runs[i].kind
  /\ modal.actionLoading = "null" => ActionsInFlight = {}

\* What the modal displays of an incident.
Displayed(m) ==
  << m.incident, m.alerts, m.notes, m.logEntries,
     m.relatedIncidents, m.pastIncidents >>

\* A step in which the load of call i completes.
LoadCompletes(i) == runs[i].pc = "load" /\ runs'[i].pc = "done"

\* The load that fetched a list of items (0 for the empty list).
LoadOf(items) == IF items = << >> THEN 0 ELSE items[1].load

\* C26: whatever the order of arrival, the latest load wins: the load that
\* completes last does not replace the incident, the related or the past
\* incidents on display by what an earlier load fetched, so that with all
\* loads completed the display is the latest load's, for the current
\* incidentId.
C26_LatestLoadWins ==
  [][ \A i \in DOMAIN runs :
        (LoadCompletes(i) /\ \A j \in DOMAIN runs' : runs'[j].pc = "done") =>
          /\ modal'.incident.load >= modal.incident.load
          /\ LoadOf(modal'.relatedIncidents) >= LoadOf(modal.relatedIncidents)
          /\ LoadOf(modal'.pastIncidents) >= LoadOf(modal.pastIncidents) ]_vars

\* A step in which call i starts its load.
LoadBegins(i) ==
  /\ i \in DOMAIN runs'
  /\ runs'[i].pc = "load"
  /\ i \in DOMAIN runs => runs[i].pc # "load"

\* The incident fetch of load i of incident id was fulfilled in the step:
\* the incident, alerts, notes and log entries are the ones of its answer,
\* the lists empty when the answer is the incident alone.
IncidentWritten(id, i) ==
  \E d \in IncidentAnswers(id, i) :
    /\ modal'.incident = FieldOr(d, "incident", d)
    /\ modal'.alerts = FieldOr(d, "alerts", << >>)
    /\ modal'.notes = FieldOr(d, "notes", << >>)
    /\ modal'.logEntries = FieldOr(d, "log_entries", << >>)

\* It was rejected in the step: its four pieces are as they were.
IncidentKept ==
  /\ modal'.incident = modal.incident
  /\ modal'.alerts = modal.alerts
  /\ modal'.notes = modal.notes
  /\ modal'.logEntries = modal.logEntries

\* C27: the step that starts a load sets loading; the step that completes it
\* clears loading, whichever of its three fetches failed, and each fetch has
\* either written its own pieces of state with what it fetched (fulfilled) or
\* left them as they were (rejected), independently of the other two.
C27_PartialFailure ==
  [][ /\ \A i \in DOMAIN runs' : LoadBegins(i) => modal'.loading
      /\ \A i \in DOMAIN runs :
           LoadCompletes(i) =>
             /\ ~modal'.loading
             /\ IncidentWritten(runs[i].id, i) \/ IncidentKept
             /\ modal'.relatedIncidents \in
                  { << Item(runs[i].id, i) >>, modal.relatedIncidents }
             /\ modal'.pastIncidents \in
                  { << Item(runs[i].id, i) >>, modal.pastIncidents } ]_vars

\* The second load of an incident has completed: its incident and past
\* fetches were fulfilled, its related fetch was rejected and the related
\* incidents of the first load are still there.
C27_Witness ==
  /\ ~modal.loading
  /\ \A i \in DOMAIN runs : runs[i].pc = "done"
  /\ modal.incident.load = 2
  /\ modal.relatedIncidents = << Item(modal.incidentId, 1) >>
  /\ modal.pastIncidents = << Item(modal.incidentId, 2) >>
  /\ modal.alerts = << Item(modal.incidentId, 2) >>

\* Call i is a handleAddNote call that moves from pc p to pc q in the step.
NoteMoves(i, p, q) ==
  /\ runs[i].kind = "note"
  /\ runs[i].pc = p
  /\ runs'[i].pc = q

\* C30: handleAddNote sends a note only when the text is not blank; sending,
\* it sets addingNote and leaves the text in the field.  When the request
\* has succeeded the text is cleared and the reload starts; when it has
\* failed the text stays, nothing is reloaded and addingNote is reset; when
\* the reload is over addingNote is reset.  Nothing is reloaded for a note
\* before its request has succeeded.
C30_AddNote ==
  [][ /\ \A i \in DOMAIN runs' \ DOMAIN runs :
           runs'[i].kind = "note" =>
             /\ Trim(modal.newNote) # ""
             /\ runs'[i] = NewRun("note", "request", modal.incidentId, modal.newNote)
             /\ modal'.addingNote
             /\ modal'.newNote = modal.newNote
             /\ modal'.loading = modal.loading
      /\ (Len(runs') = Len(runs) + 1 /\ Trim(modal.newNote) = "") =>
           runs'[Len(runs')].kind # "note"
      /\ \A i \in DOMAIN runs :
           /\ NoteMoves(i, "request", "load") =>
                /\ modal'.newNote = ""
                /\ modal'.loading
                /\ modal'.addingNote = modal.addingNote
           /\ NoteMoves(i, "request", "done") =>
                /\ modal'.newNote = modal.newNote
                /\ ~modal'.addingNote
                /\ modal'.loading = modal.loading
                /\ Displayed(modal') = Displayed(modal)
           /\ NoteMoves(i, "load", "done") => ~modal'.addingNote
           /\ (runs[i].kind = "note" /\ runs'[i].pc = "load") =>
                runs[i].pc \in {"request", "load"} ]_vars

\* After the first load and one more call, a note request has succeeded:
\* the field is empty, addingNote is still set and the incident is being
\* reloaded.
C30_Witness ==
  /\ Len(runs) = 3
  /\ runs[2].pc = "done"
  /\ runs[3] = NewRun("note", "load", modal.incidentId, "restarted")
  /\ modal.newNote = ""
  /\ modal.addingNote
  /\ modal.loading
  /\ modal.incident.load = 1

\* ---------------------------------------------------------------------
\* The dashboard, modifiedjsx.jsx: critical alerts raised by WebSocket
\* messages.  The hook useWebSocket is not part of the sources; it hands
\* every message it receives to the component as lastMessage, and the
\* effect on [lastMessage] runs once for each.
\* ---------------------------------------------------------------------

IncidentIds == { "Q1", "Q2" }

\* modifiedjsx.jsx:51-56, the fields of a message that the effect reads.
Messages ==
  [ type    : { "broadcast", "pong" },
    channel : { "incidents", "services" },
    data    : [ id      : IncidentIds,
                urgency : { "high", "low" },
                status  : { "triggered", "resolved" } ] ]

\* A message that differs from Qualifies only in its urgency passes too.
QualifiesAnyUrgency(msg) ==
  /\ msg.type = "broadcast"
  /\ msg.channel = "incidents"
  /\ msg.data.status = "triggered"

\* modifiedjsx.jsx:51-56, the nested conditions of the effect.
Qualifies(msg) ==
  /\ msg.type = "broadcast"
  /\ msg.channel = "incidents"
  /\ msg.data.urgency = "high"
  /\ msg.data.status = "triggered"

\* modifiedjsx.jsx:61 and 80, prev.filter(a => a.id !== id).
Without(alerts, id) ==
  LET Other(a) == a.id # id IN SelectSeq(alerts, Other)

\* modifiedjsx.jsx:55, the incident of a message; n is the number of the
\* message, which tells apart two messages about one incident.
AlertOf(msg, n) ==
  [ id |-> msg.data.id, urgency |-> msg.data.urgency,
    status |-> msg.data.status, n |-> n ]

\* modifiedjsx.jsx:50-67, the effect runs for a new lastMessage.  Timers
\* all wait 10000 ms, so they are kept in the order they were set.
OnMessage ==
  /\ dash.received < MaxMessages
  /\ \E msg \in Messages :
       LET n == dash.received + 1 IN
       dash' = [ dash EXCEPT
         !.received = n,
         !.lastMessage = msg,
         !.criticalAlerts =
            IF Qualifies(msg) THEN Append(@, AlertOf(msg, n)) ELSE @,
         !.timers =
            IF Qualifies(msg) THEN Append(@, [id |-> msg.data.id, n |-> n])
            ELSE @ ]

\* modifiedjsx.jsx:60-62, the oldest timer fires.
TimerFires ==
  /\ dash.timers # << >>
  /\ dash' = [ dash EXCEPT
       !.timers = Tail(@),
       !.criticalAlerts = Without(@, Head(dash.timers).id) ]

\* modifiedjsx.jsx:79-81, the banner dismisses one of the alerts it shows.
DismissAlert ==
  \E i \in 1..Len(dash.criticalAlerts) :
    dash' = [ dash EXCEPT
      !.criticalAlerts = Without(@, dash.criticalAlerts[i].id) ]

NextDash ==
  /\ \/ OnMessage
     \/ TimerFires
     \/ DismissAlert
  /\ UNCHANGED <<serverVars, chatVars, modalVars>>

InitDash == Init /\ envUrl /\ envModel

SpecDash == InitDash /\ [][NextDash]_vars

\* ---------------------------------------------------------------------
\* claims, dashboard
\* ---------------------------------------------------------------------

\* Every alert on display still has the timer that was set with it.
OwnTimerPending ==
  \A i \in 1..Len(dash.criticalAlerts) :
    \E j \in 1..Len(dash.timers) :
      /\ dash.timers[j].n = dash.criticalAlerts[i].n
      /\ dash.timers[j].id = dash.criticalAlerts[i].id

\* The alerts of a list whose id is not the given one, in their order.
OtherIds(alerts, id) ==
  LET Keep(a) == a.id # id IN SelectSeq(alerts, Keep)

\* One step of the dashboard: a message, a timer or a dismissal.
AlertStep ==
  /\ dash'.received # dash.received =>
       LET msg == dash'.lastMessage IN
       IF /\ msg.type = "broadcast"
          /\ msg.channel = "incidents"
          /\ msg.data.urgency = "high"
          /\ msg.data.status = "triggered"
       THEN /\ Len(dash'.criticalAlerts) = Len(dash.criticalAlerts) + 1
            /\ SubSeq(dash'.criticalAlerts, 1, Len(dash.criticalAlerts))
                 = dash.criticalAlerts
            /\ dash'.criticalAlerts[Len(dash'.criticalAlerts)].id = msg.data.id
            /\ Len(dash'.timers) = Len(dash.timers) + 1
       ELSE /\ dash'.criticalAlerts = dash.criticalAlerts
            /\ dash'.timers = dash.timers
  /\ Len(dash'.timers) < Len(dash.timers) =>
       dash'.criticalAlerts
         = OtherIds(dash.criticalAlerts, Head(dash.timers).id)
  /\ ( /\ dash'.received = dash.received
       /\ dash'.timers = dash.timers
       /\ dash'.criticalAlerts # dash.criticalAlerts ) =>
       \E i \in 1..Len(dash.criticalAlerts) :
         dash'.criticalAlerts
           = OtherIds(dash.criticalAlerts, dash.criticalAlerts[i].id)

\* C29: a WebSocket message adds its incident to criticalAlerts exactly when
\* it is a broadcast on channel 'incidents' with urgency 'high' and status
\* 'triggered', and any other message leaves criticalAlerts unchanged; an
\* alert on display always has its own timer pending, and that timer, or a
\* dismissAlert for its id, removes every alert of that id and leaves the
\* alerts of other ids in place and in order.
C29_CriticalAlerts == []OwnTimerPending /\ [][AlertStep]_vars

\* The alert of the first message was dismissed before its timer fired,
\* and the alert of the second message, of another incident, is still on
\* display.
C29_Witness ==
  /\ Len(dash.timers) = 2
  /\ dash.timers[1].n = 1
  /\ dash.timers[2].id # dash.timers[1].id
  /\ Len(dash.criticalAlerts) = 1
  /\ dash.criticalAlerts[1].n = 2

====
